---- MODULE Spec2Model ----
(***************************************************************************)
(* A model of qbit_category_updater.py: the qBittorrent adapter            *)
(* (QBittorrentClient), the GazelleGames catalog client (GazelleGamesAPI), *)
(* the tracker filter, the category deriver (create_category) and the      *)
(* sync driver (main).                                                     *)
(*                                                                         *)
(* Python strings are sequences of one-character strings, so that          *)
(* substring tests, case folding and the regular-expression substitutions  *)
(* are computed character by character as the code computes them.          *)
(* Python dicts are functions whose DOMAIN is the set of keys present.     *)
(* An optional value is None or Some(v).                                   *)
(***************************************************************************)
EXTENDS Integers, Sequences, FiniteSets, TLC

VARIABLES
    pc,             \* position of main(), or of the harness of the specification
    settings,       \* which of the four environment settings are present
    logged_in,      \* QBittorrentClient.logged_in
    server,         \* the torrents the download client holds when the run starts
    torrents,       \* main's local `torrents`: the result of get_torrents()
    idx,            \* position of the for loop of main in `torrents`
    updated_count,  \* main's local `updated_count`
    api_data,       \* main's local `api_data` / the deriver's first argument
    category,       \* main's local `category` / the deriver's result
    log,            \* every sleep and every HTTP request issued so far, in order
    applied,        \* the torrents whose set_torrent_category call returned True
    call            \* the last client method called: arguments, responses, result

vars == <<pc, settings, logged_in, server, torrents, idx, updated_count,
          api_data, category, log, applied, call>>

-----------------------------------------------------------------------------
(* Python values *)

None == [some |-> FALSE]

Some(v) == [some |-> TRUE, val |-> v]

\* dict.get(key, default)
Get(d, key, default) == IF key \in DOMAIN d THEN d[key] ELSE default

EmptyDict == [k \in {} |-> <<>>]

\* truth value of an optional dict: None and {} are falsy
TruthyDict(o) == o.some /\ DOMAIN o.val # {}

\* truth value of an optional list or string: None and the empty one are falsy
TruthySeq(o) == o.some /\ Len(o.val) > 0

-----------------------------------------------------------------------------
(* Strings *)

UpperCase == <<"A","B","C","D","E","F","G","H","I","J","K","L","M","N","O","P","Q","R","S","T","U","V","W","X","Y","Z">>

LowerCase == <<"a","b","c","d","e","f","g","h","i","j","k","l","m","n","o","p","q","r","s","t","u","v","w","x","y","z">>

Digits == <<"0","1","2","3","4","5","6","7","8","9">>

Range(s) == { s[i] : i \in DOMAIN s }

Whitespace == {" ", "\t"}

\* the character class [<>:"/\\|?*] of lines 265, 269 and 303
IllegalChars == {"<", ">", ":", "\"", "/", "\\", "|", "?", "*"}

\* \w of the re module on the characters used here
WordChars == Range(UpperCase) \cup Range(LowerCase) \cup Range(Digits) \cup {"_"}

\* the characters [^\w\s\-\.\(\)\[\]&\'] of line 309 keeps
KeptChars == WordChars \cup Whitespace \cup {"-", ".", "(", ")", "[", "]", "&", "'"}

LowerChar(c) ==
    IF c \in Range(UpperCase)
    THEN LowerCase[CHOOSE i \in DOMAIN UpperCase : UpperCase[i] = c]
    ELSE c

\* str.lower()
Lower(s) == [i \in DOMAIN s |-> LowerChar(s[i])]

\* str.upper()
UpperChar(c) ==
    IF c \in Range(LowerCase)
    THEN UpperCase[CHOOSE i \in DOMAIN LowerCase : LowerCase[i] = c]
    ELSE c

Upper(s) == [i \in DOMAIN s |-> UpperChar(s[i])]

\* `sub in s` on strings
Contains(sub, s) ==
    \E i \in 0..(Len(s) - Len(sub)) : SubSeq(s, i + 1, i + Len(sub)) = sub

StartsWith(s, p) == Len(p) <= Len(s) /\ SubSeq(s, 1, Len(p)) = p

EndsWith(s, p) == Len(p) <= Len(s) /\ SubSeq(s, Len(s) - Len(p) + 1, Len(s)) = p

\* str.strip()
Strip(s) ==
    LET keep == { i \in DOMAIN s : s[i] \notin Whitespace }
    IN  IF keep = {} THEN <<>>
        ELSE LET lo == CHOOSE i \in keep : \A j \in keep : i <= j
                 hi == CHOOSE i \in keep : \A j \in keep : j <= i
             IN  SubSeq(s, lo, hi)

\* re.sub('[...]', '', s): every character of the class is removed
RemoveChars(s, class) == SelectSeq(s, LAMBDA c : c \notin class)

\* re.sub('[^...]', '', s): every character outside the class is removed
KeepChars(s, class) == SelectSeq(s, LAMBDA c : c \in class)

-----------------------------------------------------------------------------
(* html.unescape, on the character references used here *)

HtmlEntities ==
    << << <<"a","m","p",";">>, "&" >>,
       << <<"l","t",";">>, "<" >>,
       << <<"g","t",";">>, ">" >>,
       << <<"q","u","o","t",";">>, "\"" >>,
       << <<"#","3","9",";">>, "'" >>,
       << <<"a","m","p">>, "&" >>,
       << <<"l","t">>, "<" >>,
       << <<"g","t">>, ">" >>,
       << <<"q","u","o","t">>, "\"" >> >>

RECURSIVE html_unescape(_)
html_unescape(s) ==
    IF s = <<>> THEN <<>>
    ELSE IF Head(s) = "&"
              /\ \E e \in DOMAIN HtmlEntities : StartsWith(Tail(s), HtmlEntities[e][1])
         THEN LET e == CHOOSE e \in DOMAIN HtmlEntities :
                          /\ StartsWith(Tail(s), HtmlEntities[e][1])
                          /\ \A f \in DOMAIN HtmlEntities :
                                StartsWith(Tail(s), HtmlEntities[f][1]) => e <= f
              IN  <<HtmlEntities[e][2]>>
                    \o html_unescape(SubSeq(s, 2 + Len(HtmlEntities[e][1]), Len(s)))
         ELSE <<Head(s)>> \o html_unescape(Tail(s))

\* re.sub(r'<[^>]+>', '', s): a '<', one or more characters other than '>',
\* and the '>' that follows them
RECURSIVE StripTags(_)
StripTags(s) ==
    IF s = <<>> THEN <<>>
    ELSE IF Head(s) = "<" /\ \E j \in 3..Len(s) : s[j] = ">" /\ s[2] # ">"
         THEN LET j == CHOOSE j \in 3..Len(s) :
                          s[j] = ">" /\ \A k \in 2..(j - 1) : s[k] # ">"
              IN  StripTags(SubSeq(s, j + 1, Len(s)))
         ELSE <<Head(s)>> \o StripTags(Tail(s))

\* re.sub(r'\s+', ' ', s): every run of whitespace becomes one space
RECURSIVE CollapseSpaces(_)
CollapseSpaces(s) ==
    IF s = <<>> THEN <<>>
    ELSE IF Head(s) \in Whitespace
         THEN IF Len(s) > 1 /\ s[2] \in Whitespace
              THEN CollapseSpaces(Tail(s))
              ELSE <<" ">> \o CollapseSpaces(Tail(s))
         ELSE <<Head(s)>> \o CollapseSpaces(Tail(s))

-----------------------------------------------------------------------------
(* The category deriver: create_category(api_data, torrent_hash) *)

s_Games == <<"G","a","m","e","s","/">>

s_Unknown == <<"U","n","k","n","o","w","n">>

s_UnknownGame == <<"U","n","k","n","o","w","n"," ","G","a","m","e">>

s_Microsoft == <<"M","i","c","r","o","s","o","f","t">>

s_Sony == <<"S","o","n","y">>

s_Nintendo == <<"N","i","n","t","e","n","d","o">>

s_Linux == <<"L","i","n","u","x">>

s_Apple == <<"A","p","p","l","e">>

s_Google == <<"G","o","o","g","l","e">>

s_Valve == <<"V","a","l","v","e">>

\* the dict of lines 275-284, in its insertion order (the order .items() yields)
manufacturer_map ==
  << << <<"w","i","n","d","o","w","s">>, s_Microsoft >>,
     << <<"p","c">>, s_Microsoft >>,
     << <<"x","b","o","x">>, s_Microsoft >>,
     << <<"x","b","o","x"," ","3","6","0">>, s_Microsoft >>,
     << <<"x","b","o","x"," ","o","n","e">>, s_Microsoft >>,
     << <<"x","b","o","x"," ","s","e","r","i","e","s"," ","x">>, s_Microsoft >>,
     << <<"p","l","a","y","s","t","a","t","i","o","n">>, s_Sony >>,
     << <<"p","l","a","y","s","t","a","t","i","o","n"," ","2">>, s_Sony >>,
     << <<"p","l","a","y","s","t","a","t","i","o","n"," ","3">>, s_Sony >>,
     << <<"p","l","a","y","s","t","a","t","i","o","n"," ","4">>, s_Sony >>,
     << <<"p","l","a","y","s","t","a","t","i","o","n"," ","5">>, s_Sony >>,
     << <<"p","l","a","y","s","t","a","t","i","o","n"," ","p","o","r","t","a","b","l","e">>, s_Sony >>,
     << <<"p","l","a","y","s","t","a","t","i","o","n"," ","v","i","t","a">>, s_Sony >>,
     << <<"s","w","i","t","c","h">>, s_Nintendo >>,
     << <<"n","i","n","t","e","n","d","o"," ","3","d","s">>, s_Nintendo >>,
     << <<"n","i","n","t","e","n","d","o"," ","d","s">>, s_Nintendo >>,
     << <<"w","i","i">>, s_Nintendo >>,
     << <<"w","i","i"," ","u">>, s_Nintendo >>,
     << <<"g","a","m","e","c","u","b","e">>, s_Nintendo >>,
     << <<"l","i","n","u","x">>, s_Linux >>,
     << <<"m","a","c">>, s_Apple >>,
     << <<"m","a","c","o","s">>, s_Apple >>,
     << <<"i","o","s">>, s_Apple >>,
     << <<"a","n","d","r","o","i","d">>, s_Google >>,
     << <<"s","t","e","a","m"," ","d","e","c","k">>, s_Valve >> >>

\* lines 256-266: the subcategory the if/elif chain assigns for a non-empty
\* game_dox_type ("" is what line 252 set when game_dox_type is empty)
subcategory_by_type(game_dox_type) ==
    IF game_dox_type = <<>> THEN <<>>
    ELSE IF Lower(game_dox_type) = <<"u","p","d","a","t","e">> THEN <<"/","U","p","d","a","t","e">>
    ELSE IF Lower(game_dox_type) = <<"d","l","c">> THEN <<"/","D","L","C">>
    ELSE IF Lower(game_dox_type) = <<"p","a","t","c","h">> THEN <<"/","P","a","t","c","h">>
    ELSE <<"/">> \o RemoveChars(game_dox_type, IllegalChars)

\* lines 252-272: the value of `subcategory` when line 274 is reached. Inside
\* `if torrent_data:` lines 269-270 assign it again, unconditionally, after the
\* if/elif chain of lines 256-266, so the chain's value is overwritten.
subcategory_of(torrent_data) ==
    IF DOMAIN torrent_data = {} THEN <<>>
    ELSE LET game_dox_type == Strip(Get(torrent_data, "gameDOXType", <<>>))
             subcategory == subcategory_by_type(game_dox_type)
             clean_dox_type == RemoveChars(game_dox_type, IllegalChars)
         IN  <<"/">> \o clean_dox_type

\* a faulty variant of first_match: the loop has no break, so the last
\* matching entry wins
RECURSIVE first_match_nobreak(_, _)
first_match_nobreak(platform_lower, i) ==
    IF i > Len(manufacturer_map) THEN s_Unknown
    ELSE LET later == first_match_nobreak(platform_lower, i + 1)
         IN  IF later = s_Unknown /\ Contains(manufacturer_map[i][1], platform_lower)
             THEN manufacturer_map[i][2]
             ELSE later

\* lines 286-292: the label of the first entry, in the dict's order, whose key
\* is a substring of the lower-cased platform
RECURSIVE first_match(_, _)
first_match(platform_lower, i) ==
    IF i > Len(manufacturer_map) THEN s_Unknown
    ELSE IF Contains(manufacturer_map[i][1], platform_lower)
         THEN manufacturer_map[i][2]
         ELSE first_match(platform_lower, i + 1)

manufacturer_of(platform) == first_match(Lower(platform), 1)

\* lines 296-309
clean_name_of(game_name) ==
    LET decoded_name == html_unescape(game_name)
        n1 == StripTags(decoded_name)
        n2 == RemoveChars(n1, IllegalChars)
        n3 == Strip(CollapseSpaces(n2))
    IN  KeepChars(n3, KeptChars)

\* lines 234-314; torrent_hash is not used by the function
create_category(data) ==
    IF ~TruthyDict(data) THEN None
    ELSE LET group == Get(data.val, "group", EmptyDict)
             torrent_data == Get(data.val, "torrent", EmptyDict)
             platform == Strip(Get(group, "platform", <<>>))
             game_name == Get(group, "name", s_UnknownGame)
             year == Get(group, "year", s_Unknown)
         IN  Some(s_Games \o manufacturer_of(platform) \o <<"/">> \o platform
                  \o <<"/">> \o clean_name_of(game_name)
                  \o <<" ", "(">> \o year \o <<")">>
                  \o subcategory_of(torrent_data))

-----------------------------------------------------------------------------
(* HTTP: the outcome of one request is an exception of the requests library *)
(* (connection error, timeout) or a response with a status and a body.      *)

HTTP_OK == 200

HTTP_CONFLICT == 409

\* the statuses a server answers with: OK, conflict, and 500 for any other
Statuses == {HTTP_OK, HTTP_CONFLICT, 500}

NoBody == [json |-> FALSE]

\* a body that is the text t and does not parse as JSON
Text(t) == [json |-> FALSE, text |-> t]

\* a body that parses as JSON to the value v
Json(v) == [json |-> TRUE, val |-> v]

Exc == [exc |-> TRUE, status |-> 0, body |-> NoBody]

Http(s, b) == [exc |-> FALSE, status |-> s, body |-> b]

\* one HTTP request as the log and a call's `reqs` record it
Req(ev, hash, arg) == [ev |-> ev, hash |-> hash, arg |-> arg, secs |-> 0]

\* time.sleep(n)
Sleep(n) == [ev |-> "sleep", hash |-> <<>>, arg |-> <<>>, secs |-> n]

\* what a method call did: its return value, the requests (and sleeps) it
\* issued in order, whether an exception left it, and the flag afterwards
Result(ret, reqs, raised, li) ==
    [ret |-> ret, reqs |-> reqs, raised |-> raised, logged_in |-> li]

-----------------------------------------------------------------------------
(* QBittorrentClient *)

\* a faulty variant of qb_login: the body of the response is not compared
qb_login_statusonly(li, resp) ==
    IF resp.exc THEN Result(Some(FALSE), <<Req("login", <<>>, <<>>)>>, FALSE, li)
    ELSE IF resp.status = HTTP_OK
         THEN Result(Some(TRUE), <<Req("login", <<>>, <<>>)>>, FALSE, TRUE)
         ELSE Result(Some(FALSE), <<Req("login", <<>>, <<>>)>>, FALSE, li)

\* lines 34-55
qb_login(li, resp) ==
    LET reqs == <<Req("login", <<>>, <<>>)>>
    IN  IF resp.exc THEN Result(Some(FALSE), reqs, FALSE, li)
        ELSE IF resp.status = HTTP_OK /\ resp.body = Text("Ok.")
             THEN Result(Some(TRUE), reqs, FALSE, TRUE)
             ELSE Result(Some(FALSE), reqs, FALSE, li)

\* lines 68-72: the torrents whose 'tags' string does not have 'GGn-Sorted'
\* as a substring
GGN_SORTED == <<"G","G","n","-","S","o","r","t","e","d">>

\* a faulty variant of filter_torrents: the tag test is left out
filter_torrents_unfiltered(all_torrents) == all_torrents

filter_torrents(all_torrents) ==
    SelectSeq(all_torrents,
              LAMBDA torrent : ~Contains(GGN_SORTED, Get(torrent, "tags", <<>>)))

\* lines 57-78
qb_get_torrents(li, resp) ==
    IF ~li THEN Result(None, <<>>, FALSE, li)
    ELSE LET reqs == <<Req("info", <<>>, <<>>)>>
         IN  IF resp.exc THEN Result(None, reqs, TRUE, li)
             ELSE IF resp.status = HTTP_OK
                  THEN IF resp.body.json
                       THEN Result(Some(filter_torrents(resp.body.val)), reqs, FALSE, li)
                       ELSE Result(None, reqs, TRUE, li)
                  ELSE Result(None, reqs, FALSE, li)

\* lines 91, 104, 116: response.json() if response.status_code == 200 else None
json_if_ok(li, reqs, resp) ==
    IF resp.exc THEN Result(None, reqs, TRUE, li)
    ELSE IF resp.status = HTTP_OK
         THEN IF resp.body.json
              THEN Result(Some(resp.body.val), reqs, FALSE, li)
              ELSE Result(None, reqs, TRUE, li)
         ELSE Result(None, reqs, FALSE, li)

\* lines 80-91
qb_get_torrent_properties(li, hash, resp) ==
    IF ~li THEN Result(None, <<>>, FALSE, li)
    ELSE json_if_ok(li, <<Req("properties", hash, <<>>)>>, resp)

\* lines 93-104
qb_get_torrent_trackers(li, hash, resp) ==
    IF ~li THEN Result(None, <<>>, FALSE, li)
    ELSE json_if_ok(li, <<Req("trackers", hash, <<>>)>>, resp)

\* lines 106-116
qb_get_categories(li, resp) ==
    IF ~li THEN Result(None, <<>>, FALSE, li)
    ELSE json_if_ok(li, <<Req("categories", <<>>, <<>>)>>, resp)

\* lines 118-129
qb_create_category(li, cat, resp) ==
    IF ~li THEN Result(Some(FALSE), <<>>, FALSE, li)
    ELSE LET reqs == <<Req("createCategory", <<>>, cat)>>
         IN  IF resp.exc THEN Result(None, reqs, TRUE, li)
             ELSE Result(Some(resp.status = HTTP_OK), reqs, FALSE, li)

\* a faulty variant of qb_set_torrent_category: the conflict is not handled
qb_set_torrent_category_noretry(li, hash, cat, r1, rc, r2) ==
    IF ~li THEN Result(Some(FALSE), <<>>, FALSE, li)
    ELSE IF r1.exc THEN Result(None, <<Req("setCategory", hash, cat)>>, TRUE, li)
    ELSE Result(Some(r1.status = HTTP_OK), <<Req("setCategory", hash, cat)>>, FALSE, li)

\* a faulty variant of qb_set_torrent_category: a retry loop, which answers a
\* second conflict by creating and posting once more
qb_set_torrent_category_loop(li, hash, cat, r1, rc, r2) ==
    IF ~li THEN Result(Some(FALSE), <<>>, FALSE, li)
    ELSE LET post == Req("setCategory", hash, cat)
             create == Req("createCategory", <<>>, cat)
         IN  IF r1.exc THEN Result(None, <<post>>, TRUE, li)
             ELSE IF r1.status # HTTP_CONFLICT
                  THEN Result(Some(r1.status = HTTP_OK), <<post>>, FALSE, li)
             ELSE IF rc.exc THEN Result(None, <<post, create>>, TRUE, li)
             ELSE IF rc.status # HTTP_OK
                  THEN Result(Some(FALSE), <<post, create>>, FALSE, li)
             ELSE IF r2.exc THEN Result(None, <<post, create, post>>, TRUE, li)
             ELSE IF r2.status # HTTP_CONFLICT
                  THEN Result(Some(r2.status = HTTP_OK), <<post, create, post>>, FALSE, li)
             ELSE Result(Some(FALSE), <<post, create, post, create, post>>, FALSE, li)

\* lines 131-159; r1 answers the first setCategory post, rc the createCategory
\* post and r2 the second setCategory post, each when it is issued
qb_set_torrent_category(li, hash, cat, r1, rc, r2) ==
    IF ~li THEN Result(Some(FALSE), <<>>, FALSE, li)
    ELSE LET post == Req("setCategory", hash, cat)
         IN  IF r1.exc THEN Result(None, <<post>>, TRUE, li)
             ELSE IF r1.status = HTTP_CONFLICT
                  THEN LET created == qb_create_category(li, cat, rc)
                           reqs == <<post>> \o created.reqs
                       IN  IF created.raised THEN Result(None, reqs, TRUE, li)
                           ELSE IF created.ret = Some(TRUE)
                                THEN IF r2.exc
                                     THEN Result(None, reqs \o <<post>>, TRUE, li)
                                     ELSE Result(Some(r2.status = HTTP_OK),
                                                 reqs \o <<post>>, FALSE, li)
                                ELSE Result(Some(FALSE), reqs, FALSE, li)
                  ELSE Result(Some(r1.status = HTTP_OK), <<post>>, FALSE, li)

\* a faulty variant of qb_add_torrent_tags: the logged_in test is left out
qb_add_torrent_tags_unguarded(li, hash, tags, resp) ==
    IF resp.exc THEN Result(None, <<Req("addTags", hash, tags)>>, TRUE, li)
    ELSE Result(Some(resp.status = HTTP_OK), <<Req("addTags", hash, tags)>>, FALSE, li)

\* lines 161-172
qb_add_torrent_tags(li, hash, tags, resp) ==
    IF ~li THEN Result(Some(FALSE), <<>>, FALSE, li)
    ELSE LET reqs == <<Req("addTags", hash, tags)>>
         IN  IF resp.exc THEN Result(None, reqs, TRUE, li)
             ELSE Result(Some(resp.status = HTTP_OK), reqs, FALSE, li)

-----------------------------------------------------------------------------
(* GazelleGamesAPI *)

\* a faulty variant of ggn_get_torrent: the request is made outside the try,
\* so a transport error leaves the method
ggn_get_torrent_untried(li, torrent_hash, resp) ==
    IF ~torrent_hash.some THEN Result(None, <<Sleep(2)>>, FALSE, li)
    ELSE LET reqs == <<Sleep(2), Req("ggn", Upper(torrent_hash.val), <<>>)>>
         IN  IF resp.exc THEN Result(None, reqs, TRUE, li)
             ELSE IF resp.status = HTTP_OK /\ resp.body.json /\ resp.body.val.isdict
                     /\ Get(resp.body.val.dict, "status", "") = "success"
                  THEN Result(Some(Get(resp.body.val.dict, "response", EmptyDict)),
                              reqs, FALSE, li)
                  ELSE Result(None, reqs, FALSE, li)

\* a faulty variant of ggn_get_torrent: the delay is taken only after a
\* request that failed
ggn_get_torrent_nosleep(li, torrent_hash, resp) ==
    IF ~torrent_hash.some THEN Result(None, <<>>, FALSE, li)
    ELSE LET req == Req("ggn", Upper(torrent_hash.val), <<>>)
         IN  IF ~resp.exc /\ resp.status = HTTP_OK /\ resp.body.json
                /\ resp.body.val.isdict
                /\ Get(resp.body.val.dict, "status", "") = "success"
             THEN Result(Some(Get(resp.body.val.dict, "response", EmptyDict)),
                         <<req>>, FALSE, li)
             ELSE Result(None, <<req, Sleep(2)>>, FALSE, li)

\* lines 183-219; torrent_hash is None or Some(string): None.upper() raises
\* inside the try, before any request is sent
ggn_get_torrent(li, torrent_hash, resp) ==
    LET sleep == <<Sleep(2)>>
    IN  IF ~torrent_hash.some THEN Result(None, sleep, FALSE, li)
        ELSE LET reqs == sleep \o <<Req("ggn", Upper(torrent_hash.val), <<>>)>>
             IN  IF resp.exc THEN Result(None, reqs, FALSE, li)
                 ELSE IF resp.status = HTTP_OK
                      THEN IF ~resp.body.json THEN Result(None, reqs, FALSE, li)
                           ELSE IF ~resp.body.val.isdict
                                THEN Result(None, reqs, FALSE, li)
                           ELSE IF Get(resp.body.val.dict, "status", "") = "success"
                                THEN Result(Some(Get(resp.body.val.dict, "response",
                                                     EmptyDict)),
                                            reqs, FALSE, li)
                                ELSE Result(None, reqs, FALSE, li)
                      ELSE Result(None, reqs, FALSE, li)

\* a faulty variant of is_gazelle_games_tracker: the URL is not lower-cased
is_gazelle_games_tracker_cased(trackers) ==
    IF ~TruthySeq(trackers) THEN FALSE
    ELSE \E i \in DOMAIN trackers.val :
            Contains(<<"g","a","z","e","l","l","e","g","a","m","e","s",".","n","e","t">>,
                     Get(trackers.val[i], "url", <<>>))

\* a faulty variant of is_gazelle_games_tracker: the loop returns True at its
\* first record, whatever its URL
is_gazelle_games_tracker_anyurl(trackers) == TruthySeq(trackers)

\* lines 222-231; trackers is None or Some(list of dicts)
is_gazelle_games_tracker(trackers) ==
    IF ~TruthySeq(trackers) THEN FALSE
    ELSE \E i \in DOMAIN trackers.val :
            Contains(<<"g","a","z","e","l","l","e","g","a","m","e","s",".","n","e","t">>,
                     Lower(Get(trackers.val[i], "url", <<>>)))

-----------------------------------------------------------------------------
(* The inputs the specifications draw from *)

\* the longest torrent list the download client returns
MaxTorrents == 2

SettingNames == {"QB_HOST", "QB_USERNAME", "QB_PASSWORD", "GGN_API_KEY"}

\* the hash of the i-th torrent of the download client
HashOf(i) == <<"a", "b", Digits[i + 1]>>

Hashes == { HashOf(i) : i \in 1..(MaxTorrents + 1) }

\* 'tags' strings of the driver's runs: none, the processed marker among
\* others, a longer tag that has the marker as a part
MainTags ==
    { <<>>,
      <<"g","g","n",","," ","G","G","n","-","S","o","r","t","e","d">>,
      <<"G","G","n","-","S","o","r","t","e","d","-","o","l","d">> }

\* 'tags' strings of the harness: also the marker alone, in another case, cut
\* short, and inside a longer tag that follows another tag
AllTags ==
    MainTags \cup
    { <<"G","G","n","-","S","o","r","t","e","d">>,
      <<"g","g","n","-","s","o","r","t","e","d">>,
      <<"G","G","n","-","S","o","r","t">>,
      <<"a",","," ","n","o","t","G","G","n","-","S","o","r","t","e","d">> }

\* the i-th torrent with the given tags; NoTags is a record without 'tags'
Torrent(i, tags) == [hash |-> HashOf(i), tags |-> tags]

TorrentNoTags(i) == [hash |-> HashOf(i)]

RECURSIVE TorrentLists(_, _)
TorrentLists(n, tagset) ==
    IF n = 0 THEN { <<>> }
    ELSE LET shorter == TorrentLists(n - 1, tagset)
         IN  shorter \cup
             { Append(l, Torrent(n, t)) : l \in { m \in shorter : Len(m) = n - 1 },
                                          t \in tagset }
             \cup { Append(l, TorrentNoTags(n)) :
                      l \in { m \in shorter : Len(m) = n - 1 } }

TrackerLists ==
    { <<>>,
      << [url |-> <<"h","t","t","p",":","/","/","t",".","G","a","z","e","l","l","e","G","a","m","e","s",".","n","e","t","/","x">>] >>,
      << [url |-> <<"h","t","t","p",":","/","/","o","t","h","e","r",".","o","r","g">>] >>,
      << [msg |-> <<"o","k">>],
         [url |-> <<"g","a","z","e","l","l","e","g","a","m","e","s",".","n","e","t">>] >> }

\* the tracker lists of the harness: also a URL in capitals, a URL with the
\* domain cut short, and two trackers of which the second matches
AllTrackerLists ==
    TrackerLists \cup
    { << [url |-> <<"H","T","T","P","S",":","/","/","T","R","A","C","K","E","R",".","G","A","Z","E","L","L","E","G","A","M","E","S",".","N","E","T","/","1","/","a","n","n","o","u","n","c","e">>] >>,
      << [url |-> <<"h","t","t","p",":","/","/","g","a","z","e","l","l","e","g","a","m","e","s",".","n","e","/","t">>] >>,
      << [url |-> <<"u","d","p",":","/","/","o","p","e","n",".","t","r","a","c","k","e","r",".","o","r","g",":","8","0">>],
         [url |-> <<"h","t","t","p","s",":","/","/","T","r","a","c","k","e","r",".","G","a","z","e","l","l","e","G","a","m","e","s",".","N","e","t","/","2">>] >> }

Platforms ==
  { <<"P","l","a","y","S","t","a","t","i","o","n"," ","4">>,
    <<"P","L","A","Y","S","T","A","T","I","O","N"," ","2">>,
    <<" ","X","b","o","x"," ","3","6","0"," ">>,
    <<"N","i","n","t","e","n","d","o"," ","S","w","i","t","c","h">>,
    <<"W","i","i"," ","U">>,
    <<"G","a","m","e","C","u","b","e">>,
    <<"L","i","n","u","x">>,
    <<"M","a","c">>,
    <<"i","O","S">>,
    <<"A","n","d","r","o","i","d">>,
    <<"S","t","e","a","m"," ","D","e","c","k">>,
    <<"W","i","n","d","o","w","s">>,
    <<"P","C">>,
    <<"A","m","i","g","a">>,
    <<>>,
    <<"M","a","c","/","L","i","n","u","x">>,
    <<"P","l","a","y","S","t","a","t","i","o","n"," ","N","o","w"," ","(","P","C",")">>,
    <<"P","C",":"," ","D","O","S">> }

GameNames ==
  { <<"F","o","o"," ","&","#","3","9",";","B","a","r","&","#","3","9",";">>,
    <<"A"," ","<","b",">","B","<","/","b",">",":"," ","C","?">>,
    <<"T","o","m"," ","&","a","m","p",";"," ","J","e","r","r","y">>,
    <<" "," ","M","u","l","t","i"," ","\t"," ","s","p","a","c","e"," ">>,
    <<"R","&","l","t",";","i","&","g","t",";","x">>,
    <<"H","a","l","f","-","L","i","f","e"," ","2"," ","[","v","1",".","0","]">>,
    <<"a","<",">","b","|","c","*","d","\\","e","\"","f","/","g">>,
    <<"5","0","%"," ","o","f","f","!">> }

Years == { <<"2","0","1","9">> }

DoxTypes ==
  { <<>>,
    <<" "," ">>,
    <<"D","L","C">>,
    <<"d","l","c">>,
    <<"U","p","d","a","t","e">>,
    <<"u","p","d","a","t","e"," ">>,
    <<"P","A","T","C","H">>,
    <<"P","a","t","c","h">>,
    <<"T","r","a","i","n","e","r">>,
    <<"F","i","x","/","C","r","a","c","k">>,
    <<"G","O","G",":"," ","G","o","o","d","i","e","s">> }

\* the 'group' sections: complete, and with platform and year missing
Groups ==
    { [platform |-> p, name |-> n, year |-> y] :
        p \in Platforms, n \in GameNames, y \in Years }
    \cup { [name |-> n] : n \in GameNames }
    \cup { [platform |-> p] : p \in Platforms }

\* the 'torrent' sections: empty, without gameDOXType, and with it
TorrentDatas ==
    { EmptyDict, [id |-> <<"7">>] }
    \cup { [gameDOXType |-> d] : d \in DoxTypes }
    \cup { [gameDOXType |-> d, id |-> <<"7">>] : d \in {<<>>, <<"D","L","C">>} }

\* the values the catalog's 'response' field can hold, and None
ApiDatas ==
    { None, Some(EmptyDict) }
    \cup { Some([group |-> g, torrent |-> t]) : g \in Groups, t \in TorrentDatas }
    \cup { Some([group |-> g]) : g \in Groups }
    \cup { Some([torrent |-> t]) : t \in TorrentDatas }

\* the payloads the catalog answers with in the driver's runs
MainPayloads ==
    { [group |-> [platform |-> <<"P","C">>, name |-> <<"F","o","o">>,
                  year |-> <<"2","0","1","9">>],
       torrent |-> [gameDOXType |-> <<"d","l","c">>]],
      EmptyDict }

CatalogBodies(payloads) ==
    { NoBody, Json([isdict |-> FALSE, dict |-> EmptyDict]),
      Json([isdict |-> TRUE, dict |-> [status |-> "failure", error |-> "bad hash"]]),
      Json([isdict |-> TRUE, dict |-> [status |-> "success"]]) }
    \cup { Json([isdict |-> TRUE, dict |-> [status |-> "success", response |-> p]]) :
             p \in payloads }

CatalogResps(payloads) ==
    { Exc } \cup { Http(s, b) : s \in {HTTP_OK, 500}, b \in CatalogBodies(payloads) }

StatusResps == { Exc } \cup { Http(s, NoBody) : s \in Statuses }

LoginResps == { Exc } \cup { Http(s, b) : s \in {HTTP_OK, 500}, b \in {Text("Ok."), Text("Fails.")} }

JsonResps(values) ==
    { Exc, Http(HTTP_OK, NoBody), Http(500, NoBody) }
    \cup { Http(HTTP_OK, Json(v)) : v \in values }

Categories == { <<"G","/","A">>, <<"G","/","B"," ","(","1",")">> }

-----------------------------------------------------------------------------
(* The record of the last client method called *)

NoCall ==
    [op |-> "none", auth |-> FALSE, args |-> <<>>, resps |-> <<>>,
     ret |-> None, reqs |-> <<>>, raised |-> FALSE]

\* op was called with args while the flag was auth, the server answered its
\* requests with resps, and r is what the method did
Call(op, auth, args, resps, r) ==
    [op |-> op, auth |-> auth, args |-> args, resps |-> resps,
     ret |-> r.ret, reqs |-> r.reqs, raised |-> r.raised]

-----------------------------------------------------------------------------
(* The sync driver: main() *)

Init ==
    /\ pc = "start"
    /\ settings \in [SettingNames -> BOOLEAN]
    /\ logged_in = FALSE
    /\ server \in TorrentLists(MaxTorrents, MainTags)
    /\ torrents = None
    /\ idx = 1
    /\ updated_count = 0
    /\ api_data = None
    /\ category = None
    /\ log = <<>>
    /\ applied = {}
    /\ call = NoCall

\* torrent.get('hash') of the torrent the loop is at
hash_id == torrents.val[idx].hash

\* a faulty variant of MainConfig: the run goes on when any one setting is
\* present
MainConfig_any ==
    /\ pc = "start"
    /\ pc' = IF \E k \in SettingNames : settings[k] THEN "login" ELSE "exit_config"
    /\ UNCHANGED <<settings, logged_in, server, torrents, idx, updated_count,
                   api_data, category, log, applied, call>>

\* lines 322-329
MainConfig ==
    /\ pc = "start"
    /\ pc' = IF \A k \in SettingNames : settings[k] THEN "login" ELSE "exit_config"
    /\ UNCHANGED <<settings, logged_in, server, torrents, idx, updated_count,
                   api_data, category, log, applied, call>>

\* lines 332-342
MainLogin ==
    /\ pc = "login"
    /\ \E resp \in LoginResps :
         LET r == qb_login(logged_in, resp)
         IN  /\ call' = Call("login", logged_in, <<>>, <<resp>>, r)
             /\ logged_in' = r.logged_in
             /\ log' = log \o r.reqs
             /\ pc' = IF r.ret = Some(TRUE) THEN "categories" ELSE "exit_login"
    /\ UNCHANGED <<settings, server, torrents, idx, updated_count, api_data,
                   category, applied>>

\* lines 345-349; an exception of the request leaves main
MainGetCategories ==
    /\ pc = "categories"
    /\ \E resp \in JsonResps({EmptyDict}) :
         LET r == qb_get_categories(logged_in, resp)
         IN  /\ call' = Call("get_categories", logged_in, <<>>, <<resp>>, r)
             /\ log' = log \o r.reqs
             /\ pc' = IF r.raised THEN "crashed" ELSE "list"
    /\ UNCHANGED <<settings, logged_in, server, torrents, idx, updated_count,
                   api_data, category, applied>>

\* lines 352-357; `if not torrents` is true of None and of the empty list
MainGetTorrents ==
    /\ pc = "list"
    /\ \E resp \in JsonResps({server}) :
         LET r == qb_get_torrents(logged_in, resp)
         IN  /\ call' = Call("get_torrents", logged_in, <<>>, <<resp>>, r)
             /\ log' = log \o r.reqs
             /\ torrents' = IF r.raised THEN torrents ELSE r.ret
             /\ pc' = IF r.raised THEN "crashed"
                      ELSE IF ~TruthySeq(r.ret) THEN "exit_list"
                      ELSE "trackers"
    /\ UNCHANGED <<settings, logged_in, server, idx, updated_count, api_data,
                   category, applied>>

\* lines 360-373: the loop takes the next torrent and fetches its trackers; the
\* call is outside the try of line 384, so an exception of it leaves main
MainTrackers ==
    /\ pc = "trackers"
    /\ idx <= Len(torrents.val)
    /\ \E resp \in JsonResps(TrackerLists) :
         LET r == qb_get_torrent_trackers(logged_in, hash_id, resp)
         IN  /\ call' = Call("get_torrent_trackers", logged_in, <<hash_id>>, <<resp>>, r)
             /\ log' = log \o r.reqs
             /\ IF r.raised THEN pc' = "crashed" /\ idx' = idx
                ELSE IF is_gazelle_games_tracker(r.ret)
                     THEN pc' = "catalog" /\ idx' = idx
                     ELSE pc' = "trackers" /\ idx' = idx + 1
    /\ UNCHANGED <<settings, logged_in, server, torrents, updated_count,
                   api_data, category, applied>>

\* a faulty variant of MainCatalog: `if not api_data: continue` is left out
MainCatalog_unchecked ==
    /\ pc = "catalog"
    /\ \E resp \in CatalogResps(MainPayloads) :
         LET r == ggn_get_torrent(logged_in, Some(hash_id), resp)
         IN  /\ call' = Call("get_torrent", logged_in, <<Some(hash_id)>>, <<resp>>, r)
             /\ log' = log \o <<Sleep(1)>> \o r.reqs
             /\ api_data' = r.ret
    /\ pc' = "derive"
    /\ idx' = idx
    /\ UNCHANGED <<settings, logged_in, server, torrents, updated_count,
                   category, applied>>

\* lines 377-381
MainCatalog ==
    /\ pc = "catalog"
    /\ \E resp \in CatalogResps(MainPayloads) :
         LET r == ggn_get_torrent(logged_in, Some(hash_id), resp)
         IN  /\ call' = Call("get_torrent", logged_in, <<Some(hash_id)>>, <<resp>>, r)
             /\ log' = log \o <<Sleep(1)>> \o r.reqs
             /\ api_data' = r.ret
             /\ IF TruthyDict(r.ret)
                THEN pc' = "derive" /\ idx' = idx
                ELSE pc' = "trackers" /\ idx' = idx + 1
    /\ UNCHANGED <<settings, logged_in, server, torrents, updated_count,
                   category, applied>>

\* lines 385-397
MainDerive ==
    /\ pc = "derive"
    /\ category' = create_category(api_data)
    /\ IF TruthySeq(category')
       THEN pc' = "set" /\ idx' = idx
       ELSE pc' = "trackers" /\ idx' = idx + 1
    /\ UNCHANGED <<settings, logged_in, server, torrents, updated_count,
                   api_data, log, applied, call>>

\* a faulty variant of MainSetCategory: the result of set_torrent_category is
\* not tested and the torrent is tagged in any case
MainSetCategory_untested ==
    /\ pc = "set"
    /\ \E r1 \in StatusResps, rc \in StatusResps, r2 \in StatusResps :
         LET r == qb_set_torrent_category(logged_in, hash_id, category.val, r1, rc, r2)
         IN  /\ call' = Call("set_torrent_category", logged_in,
                             <<hash_id, category.val>>, <<r1, rc, r2>>, r)
             /\ log' = log \o r.reqs
             /\ applied' = IF ~r.raised /\ r.ret = Some(TRUE)
                           THEN applied \cup {hash_id} ELSE applied
    /\ pc' = "tag"
    /\ idx' = idx
    /\ UNCHANGED <<settings, logged_in, server, torrents, updated_count,
                   api_data, category>>

\* lines 400-401 and 410-414; an exception is caught by the except of line 412
MainSetCategory ==
    /\ pc = "set"
    /\ \E r1 \in StatusResps, rc \in StatusResps, r2 \in StatusResps :
         LET r == qb_set_torrent_category(logged_in, hash_id, category.val, r1, rc, r2)
         IN  /\ call' = Call("set_torrent_category", logged_in,
                             <<hash_id, category.val>>, <<r1, rc, r2>>, r)
             /\ log' = log \o r.reqs
             /\ IF ~r.raised /\ r.ret = Some(TRUE)
                THEN pc' = "tag" /\ idx' = idx /\ applied' = applied \cup {hash_id}
                ELSE pc' = "trackers" /\ idx' = idx + 1 /\ applied' = applied
    /\ UNCHANGED <<settings, logged_in, server, torrents, updated_count,
                   api_data, category>>

\* lines 404-409 and 412-414: an exception of add_torrent_tags is caught by the
\* except of line 412, which skips the increment of line 409
MainAddTags ==
    /\ pc = "tag"
    /\ \E resp \in StatusResps :
         LET r == qb_add_torrent_tags(logged_in, hash_id, GGN_SORTED, resp)
         IN  /\ call' = Call("add_torrent_tags", logged_in,
                             <<hash_id, GGN_SORTED>>, <<resp>>, r)
             /\ log' = log \o r.reqs
             /\ updated_count' = IF r.raised THEN updated_count ELSE updated_count + 1
    /\ pc' = "trackers"
    /\ idx' = idx + 1
    /\ UNCHANGED <<settings, logged_in, server, torrents, api_data, category,
                   applied>>

\* line 416: the loop is over and the summary is logged
MainSummary ==
    /\ pc = "trackers"
    /\ idx > Len(torrents.val)
    /\ pc' = "done"
    /\ UNCHANGED <<settings, logged_in, server, torrents, idx, updated_count,
                   api_data, category, log, applied, call>>

Next ==
    \/ MainConfig
    \/ MainLogin
    \/ MainGetCategories
    \/ MainGetTorrents
    \/ MainTrackers
    \/ MainCatalog
    \/ MainDerive
    \/ MainSetCategory
    \/ MainAddTags
    \/ MainSummary

Spec == Init /\ [][Next]_vars

-----------------------------------------------------------------------------
(* The clients on their own: a caller that calls any method of either      *)
(* client, in any order, with any argument, against a server that answers  *)
(* anything. `call` holds the last call; the log is not kept here.         *)

InitClients ==
    /\ pc = "clients"
    /\ settings = [k \in SettingNames |-> TRUE]
    /\ logged_in = FALSE
    /\ server = <<>>
    /\ torrents = None
    /\ idx = 1
    /\ updated_count = 0
    /\ api_data = None
    /\ category = None
    /\ log = <<>>
    /\ applied = {}
    /\ call = NoCall

\* the method op, called with args and answered with resps, did r
Called(op, args, resps, r) ==
    /\ pc = "clients"
    /\ call' = Call(op, logged_in, args, resps, r)
    /\ logged_in' = r.logged_in
    /\ UNCHANGED <<pc, settings, server, torrents, idx, updated_count, api_data,
                   category, log, applied>>

CallLogin ==
    \E resp \in LoginResps :
        Called("login", <<>>, <<resp>>, qb_login(logged_in, resp))

CallGetTorrents ==
    \E resp \in JsonResps(TorrentLists(MaxTorrents, AllTags)) :
        Called("get_torrents", <<>>, <<resp>>, qb_get_torrents(logged_in, resp))

CallGetProperties ==
    \E h \in Hashes, resp \in JsonResps({EmptyDict}) :
        Called("get_torrent_properties", <<h>>, <<resp>>,
               qb_get_torrent_properties(logged_in, h, resp))

CallGetTrackers ==
    \E h \in Hashes, resp \in JsonResps(TrackerLists) :
        Called("get_torrent_trackers", <<h>>, <<resp>>,
               qb_get_torrent_trackers(logged_in, h, resp))

CallGetCategories ==
    \E resp \in JsonResps({EmptyDict}) :
        Called("get_categories", <<>>, <<resp>>, qb_get_categories(logged_in, resp))

CallCreateCategory ==
    \E cat \in Categories, resp \in StatusResps :
        Called("create_category", <<cat>>, <<resp>>,
               qb_create_category(logged_in, cat, resp))

CallSetCategory ==
    \E h \in Hashes, cat \in Categories,
       r1 \in StatusResps, rc \in StatusResps, r2 \in StatusResps :
        Called("set_torrent_category", <<h, cat>>, <<r1, rc, r2>>,
               qb_set_torrent_category(logged_in, h, cat, r1, rc, r2))

CallAddTags ==
    \E h \in Hashes, resp \in StatusResps :
        Called("add_torrent_tags", <<h, GGN_SORTED>>, <<resp>>,
               qb_add_torrent_tags(logged_in, h, GGN_SORTED, resp))

CallGetTorrent ==
    \E id \in {None} \cup { Some(h) : h \in Hashes },
       resp \in CatalogResps(MainPayloads) :
        Called("get_torrent", <<id>>, <<resp>>, ggn_get_torrent(logged_in, id, resp))

CallIsGazelleGamesTracker ==
    \E trackers \in {None} \cup { Some(l) : l \in AllTrackerLists } :
        Called("is_gazelle_games_tracker", <<trackers>>, <<>>,
               Result(Some(is_gazelle_games_tracker(trackers)), <<>>, FALSE, logged_in))

NextClients ==
    \/ CallLogin
    \/ CallGetTorrents
    \/ CallGetProperties
    \/ CallGetTrackers
    \/ CallGetCategories
    \/ CallCreateCategory
    \/ CallSetCategory
    \/ CallAddTags
    \/ CallGetTorrent
    \/ CallIsGazelleGamesTracker

SpecClients == InitClients /\ [][NextClients]_vars

-----------------------------------------------------------------------------
(* The category deriver on its own: the driver's derive step, taken from   *)
(* any metadata the catalog can return.                                    *)

InitDeriver ==
    /\ pc = "derive"
    /\ settings = [k \in SettingNames |-> TRUE]
    /\ logged_in = TRUE
    /\ server = <<>>
    /\ torrents = None
    /\ idx = 1
    /\ updated_count = 0
    /\ api_data \in ApiDatas
    /\ category = None
    /\ log = <<>>
    /\ applied = {}
    /\ call = NoCall

NextDeriver == MainDerive

SpecDeriver == InitDeriver /\ [][NextDeriver]_vars

-----------------------------------------------------------------------------
(* Properties *)

\* the set of tags a 'tags' string lists: its comma-separated parts, stripped
TagSet(tags) ==
    LET cuts == {0, Len(tags) + 1} \cup { i \in DOMAIN tags : tags[i] = "," }
    IN  { Strip(SubSeq(tags, a + 1, b - 1)) :
            <<a, b>> \in { c \in cuts \X cuts :
                             /\ c[1] < c[2]
                             /\ \A d \in cuts : ~(c[1] < d /\ d < c[2]) } }
        \ { <<>> }

\* the torrent bears the processed marker as one of its tags
IsProcessed(torrent) == GGN_SORTED \in TagSet(Get(torrent, "tags", <<>>))

\* the events of the log that are calls made for the torrent with this hash
CallsFor(hash) ==
    { k \in DOMAIN log :
        /\ log[k].ev \in {"trackers", "properties", "ggn", "setCategory", "addTags"}
        /\ log[k].hash \in {hash, Upper(hash)} }

\* C1: a torrent whose tags contain the processed marker when the run lists
\* the torrents gets no tracker fetch, no catalog query, no set-category and
\* no add-tags call in that run.
ThmC1 == \A i \in DOMAIN server : IsProcessed(server[i]) => CallsFor(server[i].hash) = {}

\* a finished run that listed a processed torrent and tagged another one
WitC1 ==
    /\ pc = "done"
    /\ \E i \in DOMAIN server : IsProcessed(server[i])
    /\ \E k \in DOMAIN log : log[k].ev = "addTags"

\* the last call is set_torrent_category on an authenticated adapter whose
\* first post was answered with conflict
SetCategoryConflict ==
    /\ call.op = "set_torrent_category"
    /\ call.auth
    /\ ~call.resps[1].exc
    /\ call.resps[1].status = HTTP_CONFLICT

AnsweredOK(resp) == ~resp.exc /\ resp.status = HTTP_OK

\* C2: when the first assignment post is answered with conflict, the adapter
\* posts create-category for the same category name next; it posts the
\* assignment again exactly once when the creation is answered OK (and not at
\* all otherwise), and when the creation and the second assignment are both
\* answered OK the call returns True.
ThmC2 ==
    SetCategoryConflict =>
        LET post == Req("setCategory", call.args[1], call.args[2])
            create == Req("createCategory", <<>>, call.args[2])
        IN  /\ Len(call.reqs) >= 2
            /\ call.reqs[1] = post
            /\ call.reqs[2] = create
            /\ IF AnsweredOK(call.resps[2])
               THEN call.reqs = <<post, create, post>>
               ELSE call.reqs = <<post, create>>
            /\ (AnsweredOK(call.resps[2]) /\ AnsweredOK(call.resps[3]))
                  => (~call.raised /\ call.ret = Some(TRUE))

\* conflict, creation OK, second assignment OK, and the call returned True
WitC2 ==
    /\ SetCategoryConflict
    /\ AnsweredOK(call.resps[2])
    /\ AnsweredOK(call.resps[3])
    /\ call.ret = Some(TRUE)
    /\ Len(call.reqs) = 3

\* the value each adapter method returns for failure
FailureValue(op) ==
    IF op \in {"create_category", "set_torrent_category", "add_torrent_tags"}
    THEN Some(FALSE)
    ELSE None

AdapterOps ==
    {"get_torrents", "get_torrent_properties", "get_torrent_trackers",
     "get_categories", "create_category", "set_torrent_category",
     "add_torrent_tags"}

\* C3: while logged_in is false, every adapter method other than login
\* returns its failure value and issues no request.
ThmC3 ==
    (call.op \in AdapterOps /\ ~call.auth) =>
        /\ call.reqs = <<>>
        /\ ~call.raised
        /\ call.ret = FailureValue(call.op)

\* add_torrent_tags was called before any login and returned False
WitC3 ==
    /\ call.op = "add_torrent_tags"
    /\ ~call.auth
    /\ ~logged_in
    /\ call.ret = Some(FALSE)
    /\ call.reqs = <<>>

\* C4: once the loop over the filtered list has started, no failure of a
\* per-torrent step, a transport error of its HTTP call included, stops main
\* before the summary.
ClaimC4 == TruthySeq(torrents) => pc # "crashed"

\* C5: at the end of a run the count is the number of torrents whose
\* set-category call returned success, whatever add-tags did.
ClaimC5 == pc = "done" => updated_count = Cardinality(applied)

\* C6: get_torrents returns exactly the listed items that do not bear the
\* processed marker as a tag, in the original order.
ClaimC6 ==
    (/\ call.op = "get_torrents"
     /\ call.auth
     /\ AnsweredOK(call.resps[1])
     /\ call.resps[1].body.json) =>
        call.ret = Some(SelectSeq(call.resps[1].body.val,
                                  LAMBDA torrent : ~IsProcessed(torrent)))

\* the gameDOXType field of the metadata, or "" when there is none
DoxTypeOf(data) ==
    Get(Get(data.val, "torrent", EmptyDict), "gameDOXType", <<>>)

\* C7: a content type that is 'update', 'dlc' or 'patch' in any letter case
\* gives a category that ends with '/Update', '/DLC' or '/Patch'.
ClaimC7 ==
    (category.some /\ TruthyDict(api_data)) =>
        LET t == Lower(DoxTypeOf(api_data))
        IN  /\ t = <<"u","p","d","a","t","e">>
                 => EndsWith(category.val, <<"/","U","p","d","a","t","e">>)
            /\ t = <<"d","l","c">> => EndsWith(category.val, <<"/","D","L","C">>)
            /\ t = <<"p","a","t","c","h">>
                 => EndsWith(category.val, <<"/","P","a","t","c","h">>)

\* C8: a derived category has none of the characters < > : " \ | ? * and has
\* '/' only between its segments: three of them, or four with a subcategory.
ClaimC8 ==
    category.some =>
        /\ Range(category.val) \cap (IllegalChars \ {"/"}) = {}
        /\ Cardinality({ i \in DOMAIN category.val : category.val[i] = "/" }) \in {3, 4}

\* the platform the deriver works with: the group's platform, stripped
PlatformOf(data) ==
    Strip(Get(Get(data.val, "group", EmptyDict), "platform", <<>>))

\* the category starts with Games/<manufacturer>/<platform>/
HasManufacturer(mfg) ==
    StartsWith(category.val,
               s_Games \o mfg \o <<"/">> \o PlatformOf(api_data) \o <<"/">>)

\* the table entries C9 names
ClaimedEntries ==
    { << <<"p","l","a","y","s","t","a","t","i","o","n">>, s_Sony >>,
      << <<"l","i","n","u","x">>, s_Linux >>,
      << <<"m","a","c">>, s_Apple >>,
      << <<"i","o","s">>, s_Apple >>,
      << <<"a","n","d","r","o","i","d">>, s_Google >>,
      << <<"s","t","e","a","m"," ","d","e","c","k">>, s_Valve >>,
      << <<"s","w","i","t","c","h">>, s_Nintendo >>,
      << <<"w","i","i">>, s_Nintendo >>,
      << <<"g","a","m","e","c","u","b","e">>, s_Nintendo >>,
      << <<"x","b","o","x">>, s_Microsoft >>,
      << <<"w","i","n","d","o","w","s">>, s_Microsoft >>,
      << <<"p","c">>, s_Microsoft >> }

\* C9 as stated: a platform that contains a table key, in any letter case,
\* resolves to that entry's manufacturer, and one that contains none to Unknown.
ClaimC9 ==
    (category.some /\ TruthyDict(api_data)) =>
        LET p == Lower(PlatformOf(api_data))
        IN  /\ \A e \in ClaimedEntries : Contains(e[1], p) => HasManufacturer(e[2])
            /\ (\A i \in DOMAIN manufacturer_map : ~Contains(manufacturer_map[i][1], p))
                  => HasManufacturer(s_Unknown)

\* C9 as amended: the manufacturer is that of the first table entry, in the
\* table's order, whose key the lower-cased platform contains, so a platform
\* with 'playstation' resolves to Sony unless it also contains 'windows', 'pc'
\* or 'xbox', which come earlier; a platform that contains no key resolves to
\* Unknown.
ThmC9 ==
    (category.some /\ TruthyDict(api_data)) =>
        LET p == Lower(PlatformOf(api_data))
        IN  /\ \A i \in DOMAIN manufacturer_map :
                  (/\ Contains(manufacturer_map[i][1], p)
                   /\ \A j \in 1..(i - 1) : ~Contains(manufacturer_map[j][1], p))
                     => HasManufacturer(manufacturer_map[i][2])
            /\ (\A i \in DOMAIN manufacturer_map : ~Contains(manufacturer_map[i][1], p))
                  => HasManufacturer(s_Unknown)

\* a platform with both 'playstation' and 'pc' was derived as Microsoft
WitC9 ==
    /\ category.some
    /\ TruthyDict(api_data)
    /\ Contains(<<"p","l","a","y","s","t","a","t","i","o","n">>, Lower(PlatformOf(api_data)))
    /\ Contains(<<"p","c">>, Lower(PlatformOf(api_data)))
    /\ HasManufacturer(s_Microsoft)

\* the request of the last get_torrent call was answered with HTTP OK and a
\* JSON object whose status field is 'success'
CatalogSuccess ==
    /\ call.args[1].some
    /\ AnsweredOK(call.resps[1])
    /\ call.resps[1].body.json
    /\ call.resps[1].body.val.isdict
    /\ Get(call.resps[1].body.val.dict, "status", "") = "success"

\* C10: get_torrent never raises; it returns the nested payload when the
\* HTTP status is OK and the status field is 'success', and None for every
\* other outcome: transport error, other status, body that is no JSON or no
\* JSON object, other status field, identifier that is None.
ThmC10 ==
    call.op = "get_torrent" =>
        /\ ~call.raised
        /\ IF CatalogSuccess
           THEN call.ret = Some(Get(call.resps[1].body.val.dict, "response", EmptyDict))
           ELSE call.ret = None

\* a get_torrent call whose request met a transport error returned None
WitC10 ==
    /\ call.op = "get_torrent"
    /\ call.args[1].some
    /\ call.resps[1].exc
    /\ call.ret = None
    /\ ~call.raised

\* the target domain, in the lower case the filter compares in
GazelleDomain == <<"g","a","z","e","l","l","e","g","a","m","e","s",".","n","e","t">>

\* the record has a URL in which the domain occurs at some position, letter
\* case aside
UrlHasDomain(tracker) ==
    /\ "url" \in DOMAIN tracker
    /\ \E k \in 0..(Len(tracker.url) - Len(GazelleDomain)) :
          \A j \in DOMAIN GazelleDomain :
              tracker.url[k + j] \in {GazelleDomain[j], UpperChar(GazelleDomain[j])}

\* the list is present and one of its records has the domain in its URL
SomeUrlHasDomain(trackers) ==
    /\ trackers.some
    /\ \E i \in DOMAIN trackers.val : UrlHasDomain(trackers.val[i])

\* C11: the tracker filter returns true exactly when some tracker record of
\* the list has a URL that contains 'gazellegames.net' in any letter case; it
\* returns false for None, for the empty list and for a list without such a URL.
ThmC11 ==
    call.op = "is_gazelle_games_tracker" =>
        call.ret = Some(SomeUrlHasDomain(call.args[1]))

\* the filter returned true for a list whose only match is written in capitals
WitC11 ==
    /\ call.op = "is_gazelle_games_tracker"
    /\ call.ret = Some(TRUE)
    /\ call.args[1].some
    /\ \A i \in DOMAIN call.args[1].val :
          ~Contains(GazelleDomain, Get(call.args[1].val[i], "url", <<>>))

\* one of the four settings is missing
SettingMissing == \E k \in SettingNames : ~settings[k]

\* the run passed the configuration test and its login failed
LoginFailed == pc \notin {"start", "login"} /\ ~SettingMissing /\ ~logged_in

\* C12: a run with a setting missing issues no request at all, and a run
\* whose login fails issues no request besides that login post: no listing,
\* no catalog query, no set-category, no add-tags.
ThmC12 ==
    /\ SettingMissing => (log = <<>> /\ call = NoCall /\ pc \in {"start", "exit_config"})
    /\ LoginFailed => (log = <<Req("login", <<>>, <<>>)>> /\ pc = "exit_login")

\* a run whose login met a transport error has ended
WitC12 ==
    /\ pc = "exit_login"
    /\ call.op = "login"
    /\ call.resps[1].exc
    /\ ~logged_in

\* main has stopped without logging the summary of line 416
StoppedShort == pc \in {"exit_config", "exit_login", "exit_list", "crashed"}

\* C13: a run that passed configuration and login and whose listing request
\* succeeded (get_torrents returned a list, empty or not) does not stop before
\* the summary is reported.
ClaimC13 == torrents.some => ~StoppedShort

\* the positions of the log that hold an add-tags post
TagPosts == { k \in DOMAIN log : log[k].ev = "addTags" }

\* C14: every add-tags post carries the processed marker and is for a torrent
\* whose set-category call returned success earlier in the run, the post
\* right before it being that torrent's set-category post; so a torrent whose
\* set-category failed, whose metadata fetch failed or whose tracker did not
\* match has no add-tags post.
ThmC14 ==
    \A k \in TagPosts :
        /\ log[k].arg = GGN_SORTED
        /\ log[k].hash \in applied
        /\ k > 1
        /\ log[k - 1].ev = "setCategory"
        /\ log[k - 1].hash = log[k].hash

\* a finished run that tagged one torrent and posted set-category without
\* success, and without tagging, for another
WitC14 ==
    /\ pc = "done"
    /\ TagPosts # {}
    /\ \E j \in DOMAIN log :
          /\ log[j].ev = "setCategory"
          /\ log[j].hash \notin applied
          /\ \A k \in TagPosts : log[k].hash # log[j].hash

\* the loop of main is at a torrent of the filtered list
InLoop ==
    /\ pc \in {"trackers", "catalog", "derive", "set", "tag"}
    /\ torrents.some
    /\ idx <= Len(torrents.val)

\* what a step adds to the log
NewEvents == { log'[k] : k \in (Len(log) + 1)..Len(log') }

\* a step of the run only adds to the log, never moves the loop back, leaves
\* the filtered list (whose hashes differ) alone once the loop has started,
\* and every request it issues for a torrent is for the torrent the loop is
\* at; create-category posts are issued only by that torrent's set step
OnlyCurrentTorrent ==
    /\ Len(log') >= Len(log)
    /\ SubSeq(log', 1, Len(log)) = log
    /\ idx' >= idx
    /\ InLoop => (/\ torrents' = torrents
                  /\ \A i, j \in DOMAIN torrents.val :
                        torrents.val[i].hash = torrents.val[j].hash => i = j)
    /\ \A e \in NewEvents :
          e.ev \in {"trackers", "properties", "ggn", "setCategory", "createCategory", "addTags"}
             => /\ InLoop
                /\ e.ev = "createCategory" => pc = "set"
                /\ e.ev # "createCategory" => e.hash \in {hash_id, Upper(hash_id)}

\* the step fetches the trackers of the torrent the loop is at and the list
\* it gets (None when the fetch failed) has no URL with the domain
SkipStep ==
    /\ InLoop
    /\ pc = "trackers"
    /\ call'.op = "get_torrent_trackers"
    /\ ~call'.raised
    /\ ~SomeUrlHasDomain(call'.ret)

\* C15: when the tracker filter is false for a torrent, the failed fetch
\* included, the step issues the tracker fetch and nothing else, leaves the
\* count alone and moves the loop to the next torrent; no later step issues a
\* catalog query, set-category, create-category or add-tags for it, as every
\* request of a step is for the torrent the loop is at.
ThmC15 ==
    [][ /\ OnlyCurrentTorrent
        /\ SkipStep =>
             /\ log' = Append(log, Req("trackers", hash_id, <<>>))
             /\ pc' = "trackers"
             /\ idx' = idx + 1
             /\ updated_count' = updated_count
             /\ applied' = applied
             /\ api_data' = api_data
             /\ category' = category ]_vars

\* a finished run whose first torrent got its tracker fetch and nothing
\* else, and whose second torrent was tagged
WitC15 ==
    /\ pc = "done"
    /\ updated_count = 1
    /\ \E k \in DOMAIN log :
          /\ k < Len(log)
          /\ log[k].ev = "trackers"
          /\ log[k + 1].ev = "trackers"
          /\ log[k].hash # log[k + 1].hash
          /\ \E t \in TagPosts : t > k /\ log[t].hash = log[k + 1].hash

\* the step queries the catalog for the torrent the loop is at and gets the
\* failure indicator
CatalogFailStep ==
    /\ InLoop
    /\ pc = "catalog"
    /\ call'.op = "get_torrent"
    /\ call'.ret = None

\* C16: when the catalog query for a torrent returns None, the step issues
\* nothing but the delays and the query, derives and applies no category,
\* leaves the count alone and moves the loop to the next torrent; no later
\* step issues set-category or add-tags for the torrent, as every request of
\* a step is for the torrent the loop is at.
ThmC16 ==
    [][ /\ OnlyCurrentTorrent
        /\ CatalogFailStep =>
             /\ \A e \in NewEvents : e.ev \in {"sleep", "ggn"}
             /\ pc' = "trackers"
             /\ idx' = idx + 1
             /\ api_data' = None
             /\ category' = category
             /\ updated_count' = updated_count
             /\ applied' = applied ]_vars

\* the catalog query for the first of two torrents returned None and the loop
\* is at the second, nothing counted
WitC16 ==
    /\ call.op = "get_torrent"
    /\ call.ret = None
    /\ pc = "trackers"
    /\ torrents.some
    /\ Len(torrents.val) = 2
    /\ idx = 2
    /\ updated_count = 0
    /\ applied = {}

\* how many requests of the last call are of this kind
Posts(kind) == Cardinality({ k \in DOMAIN call.reqs : call.reqs[k].ev = kind })

\* the response is an answer (no transport error) with a status other than OK
AnsweredNotOK(resp) == ~resp.exc /\ resp.status # HTTP_OK

\* C17: one set_torrent_category call on an authenticated adapter posts the
\* assignment at most twice and create-category at most once, the latter only
\* when the first assignment was answered with conflict; it returns False
\* when the first answer is a status other than OK and conflict, when the
\* creation is answered with a status other than OK (and then posts no second
\* assignment), and when the second assignment is answered with a status
\* other than OK, a second conflict included.
ThmC17 ==
    (call.op = "set_torrent_category" /\ call.auth) =>
        LET r1 == call.resps[1]
            rc == call.resps[2]
            r2 == call.resps[3]
            conflict == ~r1.exc /\ r1.status = HTTP_CONFLICT
        IN  /\ Posts("setCategory") \in {1, 2}
            /\ Posts("createCategory") <= 1
            /\ Len(call.reqs) = Posts("setCategory") + Posts("createCategory")
            /\ Posts("createCategory") = 1 <=> conflict
            /\ Posts("setCategory") = 2 <=> (conflict /\ AnsweredOK(rc))
            /\ (AnsweredNotOK(r1) /\ ~conflict) => call.ret = Some(FALSE)
            /\ (conflict /\ AnsweredNotOK(rc)) => call.ret = Some(FALSE)
            /\ (conflict /\ AnsweredOK(rc) /\ AnsweredNotOK(r2)) => call.ret = Some(FALSE)

\* conflict, creation OK, second conflict: three requests and False
WitC17 ==
    /\ SetCategoryConflict
    /\ AnsweredOK(call.resps[2])
    /\ ~call.resps[3].exc
    /\ call.resps[3].status = HTTP_CONFLICT
    /\ call.ret = Some(FALSE)
    /\ Len(call.reqs) = 3

\* C18: when gameDOXType is absent from the 'torrent' section or is empty or
\* whitespace only, the subcategory is "" and the category ends with ')',
\* whether the section is empty or carries other fields.
ClaimC18 ==
    (category.some /\ TruthyDict(api_data) /\ Strip(DoxTypeOf(api_data)) = <<>>)
        => EndsWith(category.val, <<")">>)

\* the positions of the log that hold a request to the catalog
CatalogRequests == { k \in DOMAIN log : log[k].ev = "ggn" }

\* C19: every request to the catalog comes right after the 2-second delay of
\* the same get_torrent call, which is the first thing every call does, and
\* in the driver that delay comes right after the 1-second delay of line 377;
\* so no two catalog requests follow each other without both delays between.
ThmC19 ==
    /\ \A k \in CatalogRequests :
          /\ k >= 3
          /\ log[k - 1] = Sleep(2)
          /\ log[k - 2] = Sleep(1)
    /\ call.op = "get_torrent" =>
          /\ Len(call.reqs) \in {1, 2}
          /\ call.reqs[1] = Sleep(2)
          /\ Len(call.reqs) = 2 => call.reqs[2].ev = "ggn"

\* two catalog requests in one run, the first of which led to no
\* set-category post
WitC19 ==
    \E k1, k2 \in CatalogRequests :
        /\ k1 < k2
        /\ \A j \in k1..k2 : log[j].ev # "setCategory"

\* the step is a login call whose post was answered with status OK and the
\* body 'Ok.'
LoginAcknowledged ==
    /\ call'.op = "login"
    /\ AnsweredOK(call'.resps[1])
    /\ call'.resps[1].body = Text("Ok.")

\* C20: logged_in starts false; a login call answered with status OK and the
\* body 'Ok.' sets it, and every other step (a login that fails through its
\* status, its body or a transport error, and any other method, succeeding
\* or failing) leaves it as it was.
ThmC20 ==
    /\ ~logged_in
    /\ [][ IF LoginAcknowledged THEN logged_in' ELSE logged_in' = logged_in ]_vars

\* a login that failed on an adapter already logged in left the flag set
WitC20 ==
    /\ logged_in
    /\ call.op = "login"
    /\ call.auth
    /\ call.ret = Some(FALSE)

====
